---- MODULE Spec2Model ----
(***************************************************************************)
(* Model of package object (src/server/interpreter/object/object.go): the  *)
(* Object heap, property descriptors and the GetProperty / SetProperty     *)
(* methods of *Object.                                                     *)
(***************************************************************************)
EXTENDS Integers, FiniteSets, Sequences, TLC

\* ------------------------------------------------------------------ bounds
\* Number values stored in properties are 1..MaxVal.
MaxVal == 2
\* Number of GetProperty/SetProperty calls made in one behaviour.
MaxOps == 2

\* Commands queued by the client in one behaviour.
MaxCmds == 3
\* Lines in one command text handed to CCC.sendCommand.
MaxLines == 2
\* Largest msgNum a server response carries, and most messages in one.
MaxMsgNum == 2
\* Ping requests sent in one run of the client.
MaxPings == 4
\* Key events and CCC.sendCommand calls in one run of the command line.
MaxKeys == 4
\* Characters in the textarea.
MaxText == 3
\* Largest count handed to CCC.setUnreadLines.
MaxUnread == 2
\* Times the clock moves in one run.
MaxTicks == 3
\* Pings that timed out in a row before a run that starts late.
QuietPings == 28

\* --------------------------------------------------------------- universes
\* *Owner identities; NilOwner is the Go nil *Owner.
Owners == {"Alice", "Bob"}
NilOwner == "nil"
\* Principals on whose behalf a call is made.  The methods take no such
\* parameter ("FIXME: should be caller"), so it never influences them.
Callers == Owners
\* Property names.
Names == {"x", "z"}
\* The three *Object values of the heap and the terminal Null{} value.
Objects == {"ObjectProto", "b", "a"}
Null == "Null"

\* Value: numbers, Undefined{} and the nil interface (zero value of Value).
Num(k) == [kind |-> "number", n |-> k]
Vals == {Num(k) : k \in 1..MaxVal}
Undefined == [kind |-> "undefined", n |-> 0]
NilValue == [kind |-> "nil", n |-> 0]

\* *ErrorMsg results.
NoError == "nil"
PermissionDenied == "PermissionDenied"

\* ------------------------------------------------------------- descriptors
\* The property struct together with the ok flag of a map lookup.
\* ZeroProperty is what `pd, ok := this.properties[name]` yields for a
\* missing key (and for every key of a nil map).
ZeroProperty == [ok |-> FALSE, owner |-> NilOwner, v |-> NilValue,
                 r |-> FALSE, e |-> FALSE, i |-> FALSE]

\* Descriptors written as struct literals when an Object is constructed.
LiteralProperties ==
    [ok : {TRUE}, owner : {"Alice"}, v : {Num(1)},
     r : BOOLEAN, e : {TRUE}, i : {FALSE}]
    \cup {[ok |-> TRUE, owner |-> "Alice", v |-> Num(1),
            r |-> FALSE, e |-> FALSE, i |-> TRUE]}

\* map[string]property: made = FALSE is the nil map of a zero Object.
NilMap == [made |-> FALSE, tab |-> [n \in Names |-> ZeroProperty]]
EmptyMap == [made |-> TRUE, tab |-> [n \in Names |-> ZeroProperty]]
LiteralMaps == {NilMap, EmptyMap} \cup
    {[made |-> TRUE, tab |-> [m \in Names |-> IF m = n THEN d ELSE ZeroProperty]] :
        n \in Names, d \in LiteralProperties}

\* heap: the Objects; last: the most recent call with its locals and results;
\* nops: calls made so far; written: the receivers of the SetProperty calls
\* made so far.
VARIABLES heap, last, nops, written
objVars == <<heap, last, nops, written>>

\* Concurrent script executions (goroutines) calling into the same heap.
\* pc: each thread's position inside its call; frame: the call's arguments
\* and locals; writing: per Object, the threads inside a map assignment on
\* its table; raced: a map access overlapped a map assignment on the same
\* table; fatal: the runtime stopped the process on detecting that.
VARIABLES pc, frame, writing, raced, fatal
concVars == <<pc, frame, writing, raced, fatal>>

\* The browser client (src/www-static/client/client.js).
\* commandOutput: the queue of commands awaiting acks, each command shown as
\*   its number in queueing order; queued: how many commands were ever queued;
\* commandIndex, messageIndex, ackMsgNextPing: the CCC fields of these names;
\* xhrObject: the ping request in flight, or NoRequest for null;
\* nextPingPid: TRUE while the timeout that calls CCC.doPing is pending;
\* terminated: CCC.terminate has been called (the textarea is disabled);
\* lastAck: the ackCmd of the response parsed in the latest step, if any;
\* pingInterval: the CCC field, in whole milliseconds;
\* pingDelay: the delay the pending timeout was set with (0 when none);
\* outstanding: the ping requests sent and not yet completed or aborted;
\* distributed: the indexes of the messages handed to the frames, in order;
\* newMsgSincePing: a message was distributed since the latest ping was built;
\* pingFresh: newMsgSincePing as it was when the latest ping was built;
\* lastParse: whether the response parsed latest carried a msgNum;
\* pings: the ping requests sent in this run.
VARIABLES commandOutput, queued, commandIndex, messageIndex, ackMsgNextPing,
          xhrObject, nextPingPid, terminated, lastAck
VARIABLES pingInterval, pingDelay, outstanding, distributed, newMsgSincePing,
          pingFresh, lastParse, pings
pingVars == <<commandOutput, queued, commandIndex, messageIndex, ackMsgNextPing,
              xhrObject, nextPingPid, terminated, lastAck,
              pingInterval, pingDelay, outstanding, distributed,
              newMsgSincePing, pingFresh, lastParse,
              pings>>

\* The command line of the client.  Texts are sequences of characters.
\* commandHistory, commandHistoryPointer, commandTemp: the CCC fields;
\* textarea: CCC.commandTextarea.value;
\* lastSend: the CCC.sendCommand call made in the latest step, if any;
\* keys: the key events and calls handled in this run.
VARIABLES commandHistory, commandHistoryPointer, commandTemp, textarea,
          lastSend, keys
inputVars == <<commandHistory, commandHistoryPointer, commandTemp, textarea,
               lastSend, keys>>

\* The unread-lines notice in the page title.
\* title: document.title as a sequence of parts, each a piece of the page's
\*   own title or a count suffix " (n)";
\* unreadLines, lastActiveTime: the CCC fields, times in milliseconds;
\* now: Date.now(); ticks: how often the clock has moved in this run;
\* shown: the CCC.setUnreadLines call made in the latest step, if any, with
\*   the title, the clock and lastActiveTime it found.
VARIABLES title, unreadLines, lastActiveTime, now, ticks, shown
titleVars == <<title, unreadLines, lastActiveTime, now, ticks, shown>>

clientVars == <<pingVars, inputVars, titleVars>>

vars == <<heap, last, nops, written, pc, frame, writing, raced, fatal,
          commandOutput, queued, commandIndex, messageIndex, ackMsgNextPing,
          xhrObject, nextPingPid, terminated, lastAck,
          pingInterval, pingDelay, outstanding, distributed,
          newMsgSincePing, pingFresh, lastParse,
          pings,
          commandHistory, commandHistoryPointer, commandTemp, textarea,
          lastSend, keys,
          title, unreadLines, lastActiveTime, now, ticks, shown>>

\* ------------------------------------------------------------------ methods
\* func (this Object) Parent() Value
Parent(h, this) == h[this].parent

\* The nearest object on the chain this, Parent(this), ... that has a local
\* descriptor for name, or Null when the chain ends without one.
RECURSIVE Holder(_, _, _)
Holder(h, this, name) ==
    IF this = Null THEN Null
    ELSE IF h[this].properties.tab[name].ok THEN this
    ELSE Holder(h, Parent(h, this), name)

\* Variant of GetProperty that drops the `if !ok` test and hands back the
\* zero descriptor's value for a missing key.
GetProperty_NoOkTest(h, this, name) ==
    LET pd == h[this].properties.tab[name] IN
    [value |-> pd.v, err |-> NoError]

\* Variant of GetProperty with a readability test whose sense is inverted.
GetProperty_InvertedR(h, this, name) ==
    LET pd == h[this].properties.tab[name] IN
    IF ~pd.ok THEN [value |-> Undefined, err |-> NoError]
    ELSE IF pd.r THEN [value |-> NilValue, err |-> PermissionDenied]
    ELSE [value |-> pd.v, err |-> NoError]

\* func (this Object) GetProperty(name string) (Value, *ErrorMsg)
GetProperty(h, this, name) ==
    LET pd == h[this].properties.tab[name] IN
    IF ~pd.ok THEN [value |-> Undefined, err |-> NoError]
    ELSE [value |-> pd.v, err |-> NoError]

\* The create branch of SetProperty (lines 99-106).
CreateProperty(h, this, name, value) ==
    [heap |-> [h EXCEPT ![this].properties.tab[name] =
                  [ok |-> TRUE, owner |-> h[this].owner, v |-> value,
                   r |-> TRUE, e |-> TRUE, i |-> FALSE]],
     err |-> NoError, outcome |-> "returned"]

\* Variant of SetProperty that updates the copy pd and never stores it back
\* (line 95 missing).
SetProperty_NoWriteBack(h, this, name, value) ==
    LET props == h[this].properties
        pd == props.tab[name]
    IN
    IF pd.ok THEN [heap |-> h, err |-> NoError, outcome |-> "returned"]
    ELSE IF ~props.made THEN [heap |-> h, err |-> NoError, outcome |-> "panic"]
    ELSE CreateProperty(h, this, name, value)

\* Variant of SetProperty that assigns through the chain: an inherited name
\* is also overwritten on the ancestor that holds it.
SetProperty_WriteThrough(h, this, name, value) ==
    LET props == h[this].properties
        pd == props.tab[name]
        anc == Holder(h, Parent(h, this), name)
    IN
    IF pd.ok THEN
        [heap |-> [h EXCEPT ![this].properties.tab[name] = [pd EXCEPT !.v = value]],
         err |-> NoError, outcome |-> "returned"]
    ELSE IF ~props.made THEN [heap |-> h, err |-> NoError, outcome |-> "panic"]
    ELSE IF anc # Null THEN
        [heap |-> [CreateProperty(h, this, name, value).heap
                     EXCEPT ![anc].properties.tab[name].v = value],
         err |-> NoError, outcome |-> "returned"]
    ELSE CreateProperty(h, this, name, value)

\* Variant of SetProperty whose update branch stores a freshly seeded
\* descriptor instead of the modified copy of the old one.
SetProperty_Reseed(h, this, name, value) ==
    LET props == h[this].properties
        pd == props.tab[name]
    IN
    IF ~pd.ok /\ ~props.made THEN [heap |-> h, err |-> NoError, outcome |-> "panic"]
    ELSE CreateProperty(h, this, name, value)

\* Variant of SetProperty that gives a receiver without a prototype the
\* default prototype ObjectProto when it creates a property on it.
SetProperty_DefaultProto(h, this, name, value) ==
    LET props == h[this].properties
        pd == props.tab[name]
    IN
    IF pd.ok THEN
        [heap |-> [h EXCEPT ![this].properties.tab[name] = [pd EXCEPT !.v = value]],
         err |-> NoError, outcome |-> "returned"]
    ELSE IF ~props.made THEN [heap |-> h, err |-> NoError, outcome |-> "panic"]
    ELSE IF h[this].parent = Null THEN
        [heap |-> [CreateProperty(h, this, name, value).heap
                     EXCEPT ![this].parent = "ObjectProto"],
         err |-> NoError, outcome |-> "returned"]
    ELSE CreateProperty(h, this, name, value)

\* Variant of SetProperty for Objects whose property table is the very map
\* of ObjectProto: a created property shows up on ObjectProto as well.
SetProperty_SharedTable(h, this, name, value) ==
    LET props == h[this].properties
        pd == props.tab[name]
    IN
    IF pd.ok THEN
        [heap |-> [h EXCEPT ![this].properties.tab[name] = [pd EXCEPT !.v = value]],
         err |-> NoError, outcome |-> "returned"]
    ELSE IF ~props.made THEN [heap |-> h, err |-> NoError, outcome |-> "panic"]
    ELSE
        [heap |-> [CreateProperty(h, this, name, value).heap
                     EXCEPT !["ObjectProto"].properties.tab[name] =
                         [ok |-> TRUE, owner |-> h[this].owner, v |-> value,
                          r |-> TRUE, e |-> TRUE, i |-> FALSE]],
         err |-> NoError, outcome |-> "returned"]

\* func (this *Object) SetProperty(name string, value Value) *ErrorMsg
\* Result: the heap after the call, the error returned, and whether the call
\* returned or panicked (assignment to an entry in a nil map).
SetProperty(h, this, name, value) ==
    LET props == h[this].properties
        pd == props.tab[name]
    IN
    IF pd.ok THEN
        [heap |-> [h EXCEPT ![this].properties.tab[name] = [pd EXCEPT !.v = value]],
         err |-> NoError, outcome |-> "returned"]
    ELSE IF ~props.made THEN
        [heap |-> h, err |-> NoError, outcome |-> "panic"]
    ELSE CreateProperty(h, this, name, value)

\* ------------------------------------------------------------ state machine
NoCall == [op |-> "none", this |-> "ObjectProto", name |-> "x", value |-> NilValue,
           caller |-> NilOwner, pd |-> ZeroProperty, result |-> NilValue,
           err |-> NoError, outcome |-> "none"]

\* The script executions.
Threads == {"t1", "t2"}
NoFrame == [op |-> "none", this |-> "ObjectProto", name |-> "x", value |-> NilValue,
            pd |-> ZeroProperty]
\* No concurrent call is under way.
ConcIdle ==
    /\ pc = [t \in Threads |-> "idle"]
    /\ frame = [t \in Threads |-> NoFrame]
    /\ writing = [o \in Objects |-> {}]
    /\ raced = FALSE
    /\ fatal = FALSE

\* CCC.MIN_PING_INTERVAL and CCC.MAX_PING_INTERVAL, in milliseconds.
MIN_PING_INTERVAL == 1000
MAX_PING_INTERVAL == 16000
\* null, as the value of CCC.xhrObject.
NoRequest == [open |-> FALSE, ackMsg |-> -1, cmdNum |-> -1, cmds |-> <<>>]
\* No ackCmd was parsed.
NoAck == [has |-> FALSE, n |-> 0]
\* CCC.MAX_HISTORY_SIZE.
MAX_HISTORY_SIZE == 1000
\* CCC.localEcho, which the client never changes.
localEcho == TRUE
\* The empty string.
NoText == <<>>
\* No CCC.sendCommand call was made in the step.
NoSend == [sent |-> FALSE, echo |-> FALSE, lines |-> <<>>]
\* A part of the page's own title, and the suffix " (n)".
Word == [count |-> FALSE, n |-> 0]
Count(n) == [count |-> TRUE, n |-> n]
\* No CCC.setUnreadLines call was made in the step.
NoShow == [called |-> FALSE, n |-> 0, at |-> 0, active |-> 0, before |-> <<>>]
\* The command line as the script sets it when it loads (lines 55-68).
InputLoaded ==
    /\ commandHistory = <<>>
    /\ commandHistoryPointer = -1
    /\ commandTemp = NoText
    /\ textarea = NoText
    /\ lastSend = NoSend
    /\ keys = 0
\* The title fields as the script sets them when it loads (lines 70-79),
\* with the clock started at the time of loading.
TitleLoaded ==
    /\ title = <<Word>>
    /\ unreadLines = 0
    /\ lastActiveTime = 0
    /\ now = 0
    /\ ticks = 0
    /\ shown = NoShow
\* The ping fields as the script sets them when it loads (lines 81-126).
PingLoaded ==
    /\ commandOutput = <<>>
    /\ queued = 0
    /\ commandIndex = 0
    /\ messageIndex = 0
    /\ ackMsgNextPing = TRUE
    /\ xhrObject = NoRequest
    /\ nextPingPid = FALSE
    /\ terminated = FALSE
    /\ lastAck = NoAck
    /\ pingInterval = MIN_PING_INTERVAL
    /\ pingDelay = 0
    /\ outstanding = 0
    /\ distributed = <<>>
    /\ newMsgSincePing = FALSE
    /\ pingFresh = FALSE
    /\ lastParse = "none"
    /\ pings = 0
\* The client's fields as the script sets them when it loads (lines 55-126).
ClientLoaded == PingLoaded /\ InputLoaded /\ TitleLoaded

\* ObjectProto is the package variable; a and b are Objects built by struct
\* literals, each with a parent constructed before it.
Init ==
    /\ \E pa \in {"b", "ObjectProto"}, ma \in LiteralMaps, mb \in LiteralMaps :
          heap = [o \in Objects |->
                    CASE o = "ObjectProto" ->
                           [owner |-> NilOwner, parent |-> Null, properties |-> EmptyMap]
                      [] o = "b" ->
                           [owner |-> "Alice", parent |-> "ObjectProto", properties |-> mb]
                      [] o = "a" ->
                           [owner |-> "Bob", parent |-> pa, properties |-> ma]]
    /\ last = NoCall
    /\ nops = 0
    /\ written = {}
    /\ ConcIdle
    /\ ClientLoaded

\* A call this.GetProperty(name) made on behalf of caller.
GetPropertyCall ==
    \E this \in Objects, name \in Names, caller \in Callers :
        LET res == GetProperty(heap, this, name) IN
        /\ nops < MaxOps
        /\ nops' = nops + 1
        /\ last' = [op |-> "get", this |-> this, name |-> name, value |-> NilValue,
                    caller |-> caller, pd |-> heap[this].properties.tab[name],
                    result |-> res.value, err |-> res.err, outcome |-> "returned"]
        /\ UNCHANGED <<heap, written>>
        /\ UNCHANGED concVars
        /\ UNCHANGED clientVars

\* A call this.SetProperty(name, value) made on behalf of caller.
SetPropertyCall ==
    \E this \in Objects, name \in Names, value \in Vals, caller \in Callers :
        LET res == SetProperty(heap, this, name, value) IN
        /\ nops < MaxOps
        /\ nops' = nops + 1
        /\ heap' = res.heap
        /\ written' = written \cup {this}
        /\ last' = [op |-> "set", this |-> this, name |-> name, value |-> value,
                    caller |-> caller, pd |-> heap[this].properties.tab[name],
                    result |-> NilValue, err |-> res.err, outcome |-> res.outcome]
        /\ UNCHANGED concVars
        /\ UNCHANGED clientVars

Next == GetPropertyCall \/ SetPropertyCall

Spec == Init /\ [][Next]_vars

\* ------------------------------------------- concurrent script executions
\* The same two methods, run by several threads with no synchronisation (the
\* code takes no lock).  A map read (lines 82, 91) and a map assignment
\* (lines 95, 99) each take a begin and an end step.  An access that begins
\* while another thread is inside an assignment on the same table is a data
\* race: the runtime may stop the process ("concurrent map writes",
\* "concurrent map read and map write") or miss it.

\* Tables the concurrent executions start from.
ConcMaps == {NilMap, EmptyMap,
             [made |-> TRUE,
              tab |-> [m \in Names |->
                         IF m = "x"
                         THEN [ok |-> TRUE, owner |-> "Alice", v |-> Num(1),
                               r |-> TRUE, e |-> TRUE, i |-> FALSE]
                         ELSE ZeroProperty]]}

InitConc ==
    /\ \E ma \in ConcMaps, mb \in ConcMaps :
          heap = [o \in Objects |->
                    CASE o = "ObjectProto" ->
                           [owner |-> NilOwner, parent |-> Null, properties |-> EmptyMap]
                      [] o = "b" ->
                           [owner |-> "Alice", parent |-> "ObjectProto", properties |-> mb]
                      [] o = "a" ->
                           [owner |-> "Bob", parent |-> "b", properties |-> ma]]
    /\ last = NoCall
    /\ nops = 0
    /\ written = {}
    /\ ConcIdle
    /\ ClientLoaded

\* The entries a map read on this[name] that ends now may return: the stored
\* entry, or one that an assignment in progress on the same key is storing.
ReadableEntries(t) ==
    LET this == frame[t].this
        name == frame[t].name
    IN {heap[this].properties.tab[name]} \cup
       {IF frame[u].pd.ok
        THEN [frame[u].pd EXCEPT !.v = frame[u].value]
        ELSE [ok |-> TRUE, owner |-> heap[this].owner, v |-> frame[u].value,
              r |-> TRUE, e |-> TRUE, i |-> FALSE] :
          u \in {w \in writing[this] \ {t} : frame[w].name = name}}

\* The threads inside a map read on the table of `this`.
Reading(this) ==
    {u \in Threads : pc[u] \in {"get82r", "set91r"} /\ frame[u].this = this}

\* A map access by t on the table of `this` begins.  It races when another
\* thread is inside an assignment on that table, or, for an assignment,
\* inside a read of it; the race is noted and either stops the process or
\* goes unnoticed.
BeginAccess(t, this, isWrite) ==
    IF \/ writing[this] \ {t} # {}
       \/ isWrite /\ Reading(this) \ {t} # {}
    THEN raced' = TRUE /\ fatal' \in BOOLEAN
    ELSE UNCHANGED <<raced, fatal>>

\* Thread t enters GetProperty(name) on this.
CGetCall(t) ==
    \E this \in Objects, name \in Names :
        /\ ~fatal /\ pc[t] = "idle" /\ nops < MaxOps
        /\ nops' = nops + 1
        /\ pc' = [pc EXCEPT ![t] = "get82"]
        /\ frame' = [frame EXCEPT ![t] = [op |-> "get", this |-> this, name |-> name,
                                          value |-> NilValue, pd |-> ZeroProperty]]
        /\ UNCHANGED <<heap, last, written, writing, raced, fatal>>
        /\ UNCHANGED clientVars

\* Thread t enters SetProperty(name, value) on this.
CSetCall(t) ==
    \E this \in Objects, name \in Names, value \in Vals :
        /\ ~fatal /\ pc[t] = "idle" /\ nops < MaxOps
        /\ nops' = nops + 1
        /\ pc' = [pc EXCEPT ![t] = "set91"]
        /\ frame' = [frame EXCEPT ![t] = [op |-> "set", this |-> this, name |-> name,
                                          value |-> value, pd |-> ZeroProperty]]
        /\ written' = written \cup {this}
        /\ UNCHANGED <<heap, last, writing, raced, fatal>>
        /\ UNCHANGED clientVars

\* Lines 82 and 91: the map read begins.
CReadBegin(t) ==
    /\ ~fatal /\ pc[t] \in {"get82", "set91"}
    /\ pc' = [pc EXCEPT ![t] = IF pc[t] = "get82" THEN "get82r" ELSE "set91r"]
    /\ BeginAccess(t, frame[t].this, FALSE)
    /\ UNCHANGED <<heap, last, nops, written, frame, writing>>
    /\ UNCHANGED clientVars

\* Lines 82-87: the map read ends and GetProperty returns.
CGetReturn(t) ==
    \E pd \in ReadableEntries(t) :
        /\ ~fatal /\ pc[t] = "get82r"
        /\ pc' = [pc EXCEPT ![t] = "idle"]
        /\ frame' = [frame EXCEPT ![t] = NoFrame]
        /\ last' = [op |-> "get", this |-> frame[t].this, name |-> frame[t].name,
                    value |-> NilValue, caller |-> NilOwner, pd |-> pd,
                    result |-> IF pd.ok THEN pd.v ELSE Undefined,
                    err |-> NoError, outcome |-> "returned"]
        /\ UNCHANGED <<heap, nops, written, writing, raced, fatal>>
        /\ UNCHANGED clientVars

\* Lines 91-94: the map read of SetProperty ends; pd and ok are in hand.
CSetReadEnd(t) ==
    \E pd \in ReadableEntries(t) :
        /\ ~fatal /\ pc[t] = "set91r"
        /\ pc' = [pc EXCEPT ![t] = "set95"]
        /\ frame' = [frame EXCEPT ![t].pd = pd]
        /\ UNCHANGED <<heap, last, nops, written, writing, raced, fatal>>
        /\ UNCHANGED clientVars

\* Lines 95 and 99: the map assignment begins; on a nil map it panics.
CWriteBegin(t) ==
    /\ ~fatal /\ pc[t] = "set95"
    /\ IF heap[frame[t].this].properties.made
       THEN /\ pc' = [pc EXCEPT ![t] = "set95w"]
            /\ writing' = [writing EXCEPT ![frame[t].this] = @ \cup {t}]
            /\ BeginAccess(t, frame[t].this, TRUE)
       ELSE /\ pc' = [pc EXCEPT ![t] = "panicked"]
            /\ UNCHANGED <<writing, raced, fatal>>
    /\ UNCHANGED <<heap, last, nops, written, frame>>
    /\ UNCHANGED clientVars

\* Lines 95-96 and 99-106: the assignment stores the entry; SetProperty
\* returns nil.
CSetReturn(t) ==
    LET this == frame[t].this
        name == frame[t].name
        pd == frame[t].pd
        entry == IF pd.ok THEN [pd EXCEPT !.v = frame[t].value]
                 ELSE [ok |-> TRUE, owner |-> heap[this].owner, v |-> frame[t].value,
                       r |-> TRUE, e |-> TRUE, i |-> FALSE]
    IN
    /\ ~fatal /\ pc[t] = "set95w"
    /\ heap' = [heap EXCEPT ![this].properties.tab[name] = entry]
    /\ writing' = [writing EXCEPT ![this] = @ \ {t}]
    /\ pc' = [pc EXCEPT ![t] = "idle"]
    /\ frame' = [frame EXCEPT ![t] = NoFrame]
    /\ last' = [op |-> "set", this |-> this, name |-> name, value |-> frame[t].value,
                caller |-> NilOwner, pd |-> pd, result |-> NilValue,
                err |-> NoError, outcome |-> "returned"]
    /\ UNCHANGED <<nops, written, raced, fatal>>
    /\ UNCHANGED clientVars

NextConc ==
    \E t \in Threads :
        \/ CGetCall(t)
        \/ CSetCall(t)
        \/ CReadBegin(t)
        \/ CGetReturn(t)
        \/ CSetReadEnd(t)
        \/ CWriteBegin(t)
        \/ CSetReturn(t)

SpecConc == InitConc /\ [][NextConc]_vars

\* ------------------------------------------------------ the browser client
\* Each handler of client.js runs to completion before the next event.

Min(x, y) == IF x < y THEN x ELSE y
Max(x, y) == IF x > y THEN x ELSE y

\* Variant of the queueing loop that counts a multi-line command once.
PushCommands_IndexOnce(out, index, base, n) ==
    [out |-> out \o [i \in 1..n |-> base + i], index |-> index + 1]

\* CCC.sendCommand, the loop of lines 256-259: each of the n lines is pushed
\* on the queue and counted in commandIndex.  base commands were queued
\* before, so the lines are the commands base+1 .. base+n.
PushCommands(out, index, base, n) ==
    [out |-> out \o [i \in 1..n |-> base + i], index |-> index + n]

\* Variant of the splice count that reads commandIndex as the number of the
\* first command on the queue.
SpliceCount_IndexIsFirst(len, ackCmd, index) ==
    Max(0, Min(len, ackCmd - index + 1))

\* CCC.parse, lines 388-389: the deleteCount handed to splice(0, ...), which
\* Array.prototype.splice clamps to 0 .. length.
SpliceCount(len, ackCmd, index) ==
    Max(0, Min(len, len + ackCmd - index))

\* CCC.parse, lines 392-405: the message index after a batch of len messages
\* ending at msgNum.
NewMessageIndex(index, msgNum, len) ==
    IF len > 0 /\ msgNum > index THEN msgNum ELSE index

\* Variant of the request that acknowledges on every ping.
PingRequest_AlwaysAck(ackNext, msgIndex, out, index) ==
    [open |-> TRUE,
     ackMsg |-> msgIndex,
     cmdNum |-> IF out # <<>> THEN index ELSE -1,
     cmds |-> out]

\* CCC.doPing, lines 300-318: the request built from the current fields.
PingRequest(ackNext, msgIndex, out, index) ==
    [open |-> TRUE,
     ackMsg |-> IF ackNext THEN msgIndex ELSE -1,
     cmdNum |-> IF out # <<>> THEN index ELSE -1,
     cmds |-> out]

\* CCC.doPing, lines 292-295: a ping is sent only when none is in progress.
\* (the variant sends whatever is in progress)
DoPingSends_Always(xhr) == TRUE
DoPingSends(xhr) == ~xhr.open

\* CCC.doPing, line 298: the delay of the contingency timeout.
ContingencyDelay_AtTimeout == MAX_PING_INTERVAL
ContingencyDelay == MAX_PING_INTERVAL + 1

\* CCC.doPing, line 315: req.timeout, after which the request ends.
RequestTimeout == MAX_PING_INTERVAL

\* CCC.doPing, line 321: the interval creeps up by 10%, capped.
Grow_Uncapped(interval) == (interval * 11) \div 10
Grow(interval) == Min(MAX_PING_INTERVAL, (interval * 11) \div 10)

\* The interval after k pings in a row with no message and no command.
RECURSIVE GrowN(_, _)
GrowN(interval, k) == IF k = 0 THEN interval ELSE GrowN(Grow(interval), k - 1)

\* CCC.parse, lines 399-401: a new message cuts the interval by 20%, floored.
Shrink_Unfloored(interval) == (interval * 4) \div 5
Shrink(interval) == Max(MIN_PING_INTERVAL, (interval * 4) \div 5)

\* CCC.parse, line 396: a message is new when its index is above
\* CCC.messageIndex.
IsNew_OrSame(currentIndex, index) == currentIndex >= index
IsNew(currentIndex, index) == currentIndex > index

\* CCC.parse, the loop of lines 394-404 from message number currentIndex up
\* to msgNum: index is CCC.messageIndex, interval is CCC.pingInterval, out
\* the indexes handed to CCC.distrubuteMessage so far.
RECURSIVE MessageLoop(_, _, _)
MessageLoop(st, currentIndex, msgNum) ==
    IF currentIndex > msgNum THEN st
    ELSE IF IsNew(currentIndex, st.index)
         THEN MessageLoop([index |-> currentIndex,
                           interval |-> Shrink(st.interval),
                           out |-> Append(st.out, currentIndex)],
                          currentIndex + 1, msgNum)
         ELSE MessageLoop(st, currentIndex + 1, msgNum)

\* CCC.parse, lines 392-408, on a response that may carry msgNum and msgs.
ParseMessages(index, interval, msg) ==
    IF msg.has
    THEN MessageLoop([index |-> index, interval |-> interval, out |-> <<>>],
                     msg.num - msg.len + 1, msg.num)
    ELSE [index |-> index, interval |-> interval, out |-> <<>>]

\* Server responses with status 200 and valid JSON: an optional ackCmd and an
\* optional msgNum with its msgs.
NoMsgs == [has |-> FALSE, num |-> 0, len |-> 0]
Responses ==
    [ack : {NoAck} \cup [has : {TRUE}, n : 0..(MaxCmds + 1)],
     msg : {NoMsgs} \cup [has : {TRUE}, num : 0..MaxMsgNum, len : 0..MaxMsgNum]]

\* No Object is in use.
ObjectsIdle ==
    /\ heap = [o \in Objects |->
                 [owner |-> NilOwner, parent |-> Null, properties |-> EmptyMap]]
    /\ last = NoCall
    /\ nops = 0
    /\ written = {}

\* The client after CCC.init, which ends with CCC.schedulePing(0) (line 166),
\* or after QuietPings pings that each timed out since, which leave every
\* field as it was but the interval and the delay of the pending timeout.
InitClient ==
    /\ ObjectsIdle
    /\ ConcIdle
    /\ commandOutput = <<>>
    /\ queued = 0
    /\ commandIndex = 0
    /\ messageIndex = 0
    /\ ackMsgNextPing = TRUE
    /\ xhrObject = NoRequest
    /\ nextPingPid = TRUE
    /\ terminated = FALSE
    /\ lastAck = NoAck
    /\ pingInterval \in {GrowN(MIN_PING_INTERVAL, k) : k \in {0, QuietPings}}
    /\ pingDelay = (IF pingInterval = MIN_PING_INTERVAL THEN 0 ELSE pingInterval)
    /\ outstanding = 0
    /\ distributed = <<>>
    /\ newMsgSincePing = FALSE
    /\ pingFresh = FALSE
    /\ lastParse = "none"
    /\ pings = 0
    /\ InputLoaded
    /\ TitleLoaded

\* CCC.schedulePing(ms), lines 415-418: the pending timeout is replaced.
SchedulePing(ms) ==
    /\ nextPingPid' = TRUE
    /\ pingDelay' = ms

\* CCC.doPing past its guard, lines 298-321, with the queue and index given:
\* the contingency timeout is set, the request is built and sent, and the
\* interval grows from the value given.
SendPing(out, index, interval, open) ==
    /\ SchedulePing(ContingencyDelay)
    /\ xhrObject' = PingRequest(ackMsgNextPing, messageIndex, out, index)
    /\ outstanding' = open + 1
    /\ pingInterval' = Grow(interval)
    /\ pingFresh' = newMsgSincePing
    /\ newMsgSincePing' = FALSE
    /\ pings' = pings + 1

\* CCC.sendCommand with a text of n lines (Enter in the textarea, which
\* CCC.terminate disables).  The interval is reset to the minimum; an
\* in-flight ping is aborted, whose readystatechange (status 0) reschedules
\* the timer, and CCC.doPing then finds xhrObject null, sets the contingency
\* timer and sends.
SendCommand ==
    \E n \in 1..MaxLines :
        LET pushed == PushCommands(commandOutput, commandIndex, queued, n) IN
        /\ ~terminated
        /\ queued + n <= MaxCmds
        /\ pings < MaxPings
        /\ commandOutput' = pushed.out
        /\ commandIndex' = pushed.index
        /\ queued' = queued + n
        /\ SendPing(pushed.out, pushed.index, MIN_PING_INTERVAL,
                    IF xhrObject.open THEN outstanding - 1 ELSE outstanding)
        /\ lastAck' = NoAck
        /\ UNCHANGED <<messageIndex, ackMsgNextPing, terminated, distributed, lastParse>>
        /\ UNCHANGED <<objVars, concVars, inputVars, titleVars>>

\* The timeout set by CCC.schedulePing fires and calls CCC.doPing.
DoPing ==
    /\ nextPingPid
    /\ IF DoPingSends(xhrObject)
       THEN /\ pings < MaxPings
            /\ SendPing(commandOutput, commandIndex, pingInterval, outstanding)
       ELSE /\ nextPingPid' = FALSE
            /\ pingDelay' = 0
            /\ UNCHANGED <<xhrObject, outstanding, pingInterval, pingFresh,
                           newMsgSincePing, pings>>
    /\ lastAck' = NoAck
    /\ UNCHANGED <<commandOutput, queued, commandIndex, messageIndex,
                   ackMsgNextPing, terminated, distributed, lastParse>>
    /\ UNCHANGED <<objVars, concVars, inputVars, titleVars>>

\* The request times out: CCC.xhrStateChange (readyState 4, status 0) and
\* CCC.xhrTimeout both clear xhrObject and schedule the next ping.  A
\* network failure (status 0) does the same through CCC.xhrStateChange.
XhrTimeout ==
    /\ xhrObject.open
    /\ xhrObject' = NoRequest
    /\ outstanding' = outstanding - 1
    /\ SchedulePing(pingInterval)
    /\ lastAck' = NoAck
    /\ UNCHANGED <<commandOutput, queued, commandIndex, messageIndex,
                   ackMsgNextPing, terminated, pingInterval, distributed,
                   newMsgSincePing, pingFresh, lastParse,
                   pings>>
    /\ UNCHANGED <<objVars, concVars, inputVars, titleVars>>

\* CCC.xhrStateChange at readyState 4 with an error status: CCC.terminate.
XhrError ==
    /\ xhrObject.open
    /\ xhrObject' = NoRequest
    /\ outstanding' = outstanding - 1
    /\ nextPingPid' = FALSE
    /\ pingDelay' = 0
    /\ terminated' = TRUE
    /\ lastAck' = NoAck
    /\ UNCHANGED <<commandOutput, queued, commandIndex, messageIndex,
                   ackMsgNextPing, pingInterval, distributed, newMsgSincePing,
                   pingFresh, lastParse,
                   pings>>
    /\ UNCHANGED <<objVars, concVars, inputVars, titleVars>>

\* CCC.xhrStateChange at readyState 4, status 200, with a body that is not
\* JSON: it returns without scheduling.
XhrInvalidJson ==
    /\ xhrObject.open
    /\ xhrObject' = NoRequest
    /\ outstanding' = outstanding - 1
    /\ lastAck' = NoAck
    /\ UNCHANGED <<commandOutput, queued, commandIndex, messageIndex,
                   ackMsgNextPing, nextPingPid, terminated, pingInterval,
                   pingDelay, distributed, newMsgSincePing, pingFresh, lastParse,
                   pings>>
    /\ UNCHANGED <<objVars, concVars, inputVars, titleVars>>

\* CCC.xhrStateChange at readyState 4, status 200, valid JSON: CCC.parse,
\* then CCC.schedulePing.  In CCC.parse an ackCmd above commandIndex calls
\* CCC.terminate and parsing goes on.
XhrResponse ==
    \E json \in Responses :
        LET parsed == ParseMessages(messageIndex, pingInterval, json.msg) IN
        /\ xhrObject.open
        /\ xhrObject' = NoRequest
        /\ outstanding' = outstanding - 1
        /\ terminated' = (terminated \/ (json.ack.has /\ json.ack.n > commandIndex))
        /\ commandOutput' =
              IF json.ack.has
              THEN SubSeq(commandOutput,
                          SpliceCount(Len(commandOutput), json.ack.n, commandIndex) + 1,
                          Len(commandOutput))
              ELSE commandOutput
        /\ messageIndex' =
              IF json.msg.has
              THEN NewMessageIndex(messageIndex, json.msg.num, json.msg.len)
              ELSE messageIndex
        /\ distributed' = distributed \o parsed.out
        /\ newMsgSincePing' = (newMsgSincePing \/ parsed.out # <<>>)
        /\ pingInterval' = parsed.interval
        /\ ackMsgNextPing' = json.msg.has
        /\ lastParse' = IF json.msg.has THEN "msgs" ELSE "nomsgs"
        /\ SchedulePing(parsed.interval)
        /\ lastAck' = json.ack
        /\ UNCHANGED <<queued, commandIndex, pingFresh, pings>>
        /\ UNCHANGED <<objVars, concVars, inputVars, titleVars>>

NextClient ==
    \/ SendCommand
    \/ DoPing
    \/ XhrTimeout
    \/ XhrError
    \/ XhrInvalidJson
    \/ XhrResponse

SpecClient == InitClient /\ [][NextClient]_vars

\* The same client with the clock taken into account: a timeout set together
\* with a request fires while that request is still open only if its delay
\* does not exceed the delay after which the request ends.
TimerMayFire == xhrObject.open => pingDelay <= RequestTimeout

DoPingTimed == TimerMayFire /\ DoPing

NextClientTimed ==
    \/ SendCommand
    \/ DoPingTimed
    \/ XhrTimeout
    \/ XhrError
    \/ XhrInvalidJson
    \/ XhrResponse

SpecClientTimed == InitClient /\ [][NextClientTimed]_vars

\* ---------------------------------------------------------- the page title
\* Ten seconds, in milliseconds (line 512).
IDLE_LIMIT == 10000

\* title.replace(/ \(\d+\)$/, ''), line 510: a count suffix at the end of the
\* title is removed.
StripCount(t) ==
    IF t # <<>> /\ t[Len(t)].count THEN SubSeq(t, 1, Len(t) - 1) ELSE t

\* Line 512: CCC.lastActiveTime > Date.now() + 10000.
UserAway(active, clock) == active > clock + IDLE_LIMIT

\* CCC.setUnreadLines(n), lines 506-516, on title t: the new title.
SetUnreadLines(n, t, active, clock) ==
    IF n # 0 /\ UserAway(active, clock)
    THEN Append(StripCount(t), Count(n))
    ELSE StripCount(t)

\* A call CCC.setUnreadLines(n) made when CCC.lastActiveTime is active.
CallSetUnreadLines(n, active) ==
    /\ unreadLines' = n
    /\ title' = SetUnreadLines(n, title, active, now)
    /\ shown' = [called |-> TRUE, n |-> n, at |-> now, active |-> active,
                 before |-> title]

\* The first two lines of CCC.keydown and of CCC.sendCommand (lines 250-251,
\* 425-426), made `times' times in a row at the same instant.
UserSeen(times) ==
    /\ lastActiveTime' = now
    /\ unreadLines' = 0
    /\ title' = IF times = 1
                THEN SetUnreadLines(0, title, now, now)
                ELSE SetUnreadLines(0, SetUnreadLines(0, title, now, now), now, now)
    /\ shown' = [called |-> TRUE, n |-> 0, at |-> now, active |-> now,
                 before |-> IF times = 1 THEN title
                            ELSE SetUnreadLines(0, title, now, now)]
    /\ UNCHANGED <<now, ticks>>

\* The page's title when the client loads: with or without an ending that
\* reads like a count.
InitTitle ==
    /\ ObjectsIdle
    /\ ConcIdle
    /\ PingLoaded
    /\ InputLoaded
    /\ title \in {<<Word>>, <<Word, Count(1)>>}
    /\ unreadLines = 0
    /\ lastActiveTime = 0
    /\ now = 0
    /\ ticks = 0
    /\ shown = NoShow

\* Time passes: a millisecond, or the ten seconds of line 512.
Tick ==
    \E d \in {1, IDLE_LIMIT} :
        /\ ticks < MaxTicks
        /\ now' = now + d
        /\ ticks' = ticks + 1
        /\ shown' = NoShow
        /\ UNCHANGED <<title, unreadLines, lastActiveTime>>
        /\ UNCHANGED <<objVars, concVars, pingVars, inputVars>>

\* A key goes down in the textarea (other than Enter, whose effect on the
\* title is the same twice over): lines 425-426.
KeySeen ==
    /\ UserSeen(1)
    /\ UNCHANGED <<objVars, concVars, pingVars, inputVars>>

\* CCC.setUnreadLines(n) is called with a count of unread lines.
SetUnreadLinesCall ==
    \E n \in 0..MaxUnread :
        /\ CallSetUnreadLines(n, lastActiveTime)
        /\ UNCHANGED <<lastActiveTime, now, ticks>>
        /\ UNCHANGED <<objVars, concVars, pingVars, inputVars>>

NextTitle ==
    \/ Tick
    \/ KeySeen
    \/ SetUnreadLinesCall

SpecTitle == InitTitle /\ [][NextTitle]_vars

\* -------------------------------------------------------- the command line
\* The characters of a text: two letters that differ in case only, and the
\* line break.
NL == "\n"
Letters == {"a", "A"}

\* String.prototype.toLowerCase.
Lower(c) == IF c = "A" THEN "a" ELSE c
ToLowerCase(text) == [i \in 1..Len(text) |-> Lower(text[i])]

\* s.indexOf(t) == 0: s starts with t.
StartsWith(s, t) == Len(t) <= Len(s) /\ SubSeq(s, 1, Len(t)) = t

\* commands.split('\n'), line 252.
RECURSIVE Split(_)
Split(text) ==
    IF text = <<>> THEN <<NoText>>
    ELSE LET rest == Split(Tail(text)) IN
         IF Head(text) = NL THEN <<NoText>> \o rest
         ELSE <<(<<Head(text)>> \o Head(rest))>> \o Tail(rest)

\* Lines 252-256: the lines of a command text, without a blank last line of
\* a multi-line text.
CommandLines(text) ==
    LET lines == Split(text) IN
    IF Len(lines) > 1 /\ lines[Len(lines)] = NoText
    THEN SubSeq(lines, 1, Len(lines) - 1)
    ELSE lines

\* Array.prototype.shift, line 269 (the variant drops the newest entry).
Shift_Pop(hist) == SubSeq(hist, 1, Len(hist) - 1)
Shift(hist) == Tail(hist)

\* The loop of lines 268-270.
RECURSIVE TrimHistory(_)
TrimHistory(hist) ==
    IF Len(hist) > MAX_HISTORY_SIZE THEN TrimHistory(Shift(hist)) ELSE hist

\* Lines 262-267 (the variant saves the command whatever echo is).
SaveCommand_Always(hist, line, echo) ==
    IF hist = <<>> \/ hist[Len(hist)] # line THEN Append(hist, line) ELSE hist
SaveCommand(hist, line, echo) ==
    IF echo /\ (hist = <<>> \/ hist[Len(hist)] # line)
    THEN Append(hist, line)
    ELSE hist

\* The loop of lines 257-275 as far as the history goes.
RECURSIVE PushHistory(_, _, _)
PushHistory(hist, lines, echo) ==
    IF lines = <<>> THEN hist
    ELSE PushHistory(TrimHistory(SaveCommand(hist, Head(lines), echo)),
                     Tail(lines), echo)

\* CCC.keydown, lines 435-449: Up or Ctrl-P (the variant moves the pointer
\* and leaves the textarea as it is).
ArrowUp_KeepsText(hist, ptr, text, temp) ==
    IF hist = <<>> THEN [ptr |-> ptr, text |-> text, temp |-> temp]
    ELSE IF ptr = -1
         THEN [ptr |-> Len(hist) - 1, text |-> hist[Len(hist)], temp |-> text]
         ELSE IF ptr > 0
              THEN [ptr |-> ptr - 1, text |-> text, temp |-> temp]
              ELSE [ptr |-> ptr, text |-> text, temp |-> temp]
ArrowUp(hist, ptr, text, temp) ==
    IF hist = <<>> THEN [ptr |-> ptr, text |-> text, temp |-> temp]
    ELSE IF ptr = -1
         THEN [ptr |-> Len(hist) - 1, text |-> hist[Len(hist)], temp |-> text]
         ELSE IF ptr > 0
              THEN [ptr |-> ptr - 1, text |-> hist[ptr], temp |-> temp]
              ELSE [ptr |-> ptr, text |-> text, temp |-> temp]

\* CCC.keydown, lines 450-463: Down or Ctrl-N.
ArrowDown(hist, ptr, text, temp) ==
    IF hist = <<>> THEN [ptr |-> ptr, text |-> text, temp |-> temp]
    ELSE IF ptr = Len(hist) - 1
         THEN [ptr |-> -1, text |-> temp, temp |-> NoText]
         ELSE IF ptr >= 0
              THEN [ptr |-> ptr + 1, text |-> hist[ptr + 2], temp |-> temp]
              ELSE [ptr |-> ptr, text |-> text, temp |-> temp]

\* CCC.keydown, the loop of lines 475-495: chp steps back from the pointer
\* (from the end of the history when the pointer is -1), or forward from it
\* when reverse, and the loop breaks at the first entry that starts with temp
\* whatever the case, or at -1 once chp has walked off the history; that is
\* within Len(hist) + 1 rounds.  The result is where it breaks.
TabTarget(hist, temp, chp, reverse) ==
    LET Match(k) == StartsWith(ToLowerCase(hist[k + 1]), ToLowerCase(temp))
        top == IF chp = -1 THEN Len(hist) - 1 ELSE chp - 1
        first == IF reverse
                 THEN {k \in (chp + 1)..(Len(hist) - 1) :
                         Match(k) /\ \A j \in (chp + 1)..(k - 1) : ~Match(j)}
                 ELSE {k \in 0..top :
                         Match(k) /\ \A j \in (k + 1)..top : ~Match(j)}
    IN IF first = {} THEN -1 ELSE CHOOSE k \in first : TRUE

\* CCC.keydown, lines 464-495: Tab, or Shift-Tab when reverse.
Tab(hist, ptr, text, temp, reverse) ==
    IF hist = <<>> THEN [ptr |-> ptr, text |-> text, temp |-> temp]
    ELSE LET saved == IF ptr = -1 THEN text ELSE temp
             chp == TabTarget(hist, saved, ptr, reverse)
         IN IF chp = -1
            THEN [ptr |-> -1, text |-> saved, temp |-> NoText]
            ELSE [ptr |-> chp, text |-> hist[chp + 1], temp |-> saved]

\* A history of MAX_HISTORY_SIZE commands, as left by a user who sent "a"
\* and "A" in turn.
FullHistory ==
    [i \in 1..MAX_HISTORY_SIZE |-> IF i % 2 = 1 THEN <<"a">> ELSE <<"A">>]

\* Command texts handed to CCC.sendCommand other than from the textarea.
CallTexts == {<<"a">>, <<"A", NL>>, <<"a", NL, "a">>}

\* The command line when the client loads, or after a long session that
\* filled the history.
InitInput ==
    /\ ObjectsIdle
    /\ ConcIdle
    /\ PingLoaded
    /\ TitleLoaded
    /\ commandHistory \in {<<>>, FullHistory}
    /\ commandHistoryPointer = -1
    /\ commandTemp = NoText
    /\ textarea = NoText
    /\ lastSend = NoSend
    /\ keys = 0

\* One more key event or call is handled.
Handled == keys < MaxKeys /\ keys' = keys + 1

\* CCC.sendCommand(text, echo), lines 249-277, as far as the command line
\* goes.
SendText(text, echo) ==
    /\ commandHistory' = PushHistory(commandHistory, CommandLines(text), echo)
    /\ commandTemp' = NoText
    /\ commandHistoryPointer' = -1
    /\ lastSend' = [sent |-> TRUE, echo |-> echo, lines |-> CommandLines(text)]

\* CCC.keydown with Enter, lines 425-434.
KeyEnter ==
    /\ Handled
    /\ UserSeen(2)
    /\ SendText(textarea, localEcho)
    /\ textarea' = NoText
    /\ UNCHANGED <<objVars, concVars, pingVars>>

\* CCC.sendCommand called with a text and an echo bit.
SendCommandCall ==
    \E text \in CallTexts, echo \in BOOLEAN :
        /\ Handled
        /\ UserSeen(1)
        /\ SendText(text, echo)
        /\ UNCHANGED textarea
        /\ UNCHANGED <<objVars, concVars, pingVars>>

\* The command line takes what a navigation key computed.
Navigate(to) ==
    /\ Handled
    /\ UserSeen(1)
    /\ commandHistoryPointer' = to.ptr
    /\ textarea' = to.text
    /\ commandTemp' = to.temp
    /\ lastSend' = NoSend
    /\ UNCHANGED commandHistory
    /\ UNCHANGED <<objVars, concVars, pingVars>>

KeyUp ==
    Navigate(ArrowUp(commandHistory, commandHistoryPointer, textarea, commandTemp))

KeyDown ==
    Navigate(ArrowDown(commandHistory, commandHistoryPointer, textarea, commandTemp))

KeyTab ==
    \E reverse \in BOOLEAN :
        Navigate(Tab(commandHistory, commandHistoryPointer, textarea,
                     commandTemp, reverse))

\* CCC.keydown with a key of one character, lines 496-499, after which the
\* browser puts the character into the textarea; with Ctrl-V (key "v") what
\* it puts there is pasted and may be a line break.
KeyChar ==
    \E c \in Letters \cup {NL} :
        /\ Len(textarea) < MaxText
        /\ Navigate([ptr |-> -1, text |-> Append(textarea, c), temp |-> NoText])

NextInput ==
    \/ KeyEnter
    \/ SendCommandCall
    \/ KeyUp
    \/ KeyDown
    \/ KeyTab
    \/ KeyChar

SpecInput == InitInput /\ [][NextInput]_vars

\* ------------------------------------------------------------------ claims
\* Facts about the most recent call, read from its record.
LastGet == last.op = "get"
LastSetOk == last.op = "set" /\ last.outcome = "returned" /\ last.err = NoError
\* The descriptor now stored on the receiver of the last call under its name.
LastEntry == heap[last.this].properties.tab[last.name]
\* The readability rule of a descriptor for a principal.
CanRead(pd, caller) == pd.r \/ caller = pd.owner
\* The write rule of a descriptor for a principal.
CanWrite(pd, caller) == caller = pd.owner

\* C1: GetProperty walks receiver, receiver.parent(), ... and returns the
\* value stored on the first object of the chain that has the name (for a
\* principal allowed to read that descriptor); in particular a child without
\* a local descriptor reads its ancestor's value.
C1_ShadowingRead ==
    LastGet =>
        LET hd == Holder(heap, last.this, last.name) IN
        (hd # Null /\ CanRead(heap[hd].properties.tab[last.name], last.caller))
            => (last.result = heap[hd].properties.tab[last.name].v /\ last.err = NoError)

\* C2: for a descriptor with readableByAll = false, GetProperty succeeds if
\* and only if the acting principal is the descriptor's owner; any other
\* principal gets PermissionDenied and no value.
C2_PrivateReadOwnerOnly ==
    (LastGet /\ last.pd.ok /\ ~last.pd.r) =>
        /\ (last.err = NoError) <=> (last.caller = last.pd.owner)
        /\ (last.caller # last.pd.owner) =>
               (last.err = PermissionDenied /\ last.result = NilValue)

\* C3: SetProperty on a name the receiver already has locally, by a principal
\* that is not the descriptor's owner, fails with PermissionDenied and leaves
\* the stored descriptor and value unchanged.
C3_UpdateByNonOwnerDenied ==
    (last.op = "set" /\ last.pd.ok /\ ~CanWrite(last.pd, last.caller)) =>
        (last.err = PermissionDenied /\ LastEntry = last.pd)

\* C4: a SetProperty that creates a property whose name exists nowhere in the
\* receiver's chain seeds the descriptor with owner = the acting principal,
\* readableByAll = true, enumerable = true, inheritedPermissions = false.
C4_CreateSeedsCaller ==
    (LastSetOk /\ ~last.pd.ok
       /\ Holder(heap, Parent(heap, last.this), last.name) = Null) =>
        /\ LastEntry.ok
        /\ LastEntry.owner = last.caller
        /\ LastEntry.r /\ LastEntry.e /\ ~LastEntry.i

\* C5: round trip: in the state a successful SetProperty(o, n, v) leaves,
\* GetProperty(o, n) returns exactly v and no error, whether n was absent,
\* local or inherited before the call.
C5_RoundTrip ==
    LastSetOk =>
        GetProperty(heap, last.this, last.name) = [value |-> last.value, err |-> NoError]

\* C5 witness: a successful set of a name that was only inherited before.
C5_Witness ==
    /\ LastSetOk /\ ~last.pd.ok
    /\ Holder(heap, Parent(heap, last.this), last.name) # Null

\* C6: a successful SetProperty(c, n, v) leaves an entry for n on the
\* receiver and changes nothing else: no other entry of the receiver, and no
\* property table, parent or owner of any other object.
C6_SetFrame ==
    [][(last'.op = "set" /\ last'.outcome = "returned" /\ last'.err = NoError) =>
          /\ heap'[last'.this].properties.tab[last'.name].ok
          /\ \A o \in Objects :
                /\ heap'[o].owner = heap[o].owner
                /\ heap'[o].parent = heap[o].parent
                /\ heap'[o].properties.made = heap[o].properties.made
                /\ \A n \in Names :
                      (o # last'.this \/ n # last'.name) =>
                          heap'[o].properties.tab[n] = heap[o].properties.tab[n]]_vars

\* C6 witness: a successful set that created a local entry for a name an
\* ancestor also holds, on a receiver that has another entry as well.
C6_Witness ==
    /\ LastSetOk /\ ~last.pd.ok
    /\ Holder(heap, Parent(heap, last.this), last.name) # Null
    /\ \E n \in Names : n # last.name /\ heap[last.this].properties.tab[n].ok

\* C7: a successful SetProperty on an existing local descriptor replaces the
\* value only: owner, readableByAll, enumerable and inheritedPermissions are
\* what they were before the call.
C7_UpdateKeepsPermissions ==
    (LastSetOk /\ last.pd.ok) =>
        /\ LastEntry = [last.pd EXCEPT !.v = last.value]
        /\ LastEntry.owner = last.pd.owner
        /\ LastEntry.r = last.pd.r
        /\ LastEntry.e = last.pd.e
        /\ LastEntry.i = last.pd.i

\* C7 witness: the same value set again on a descriptor that is not
\* world-readable and is owned by someone other than the object's owner.
C7_Witness ==
    /\ LastSetOk /\ last.pd.ok /\ last.pd.v = last.value
    /\ ~last.pd.r /\ last.pd.owner # heap[last.this].owner

\* C8: GetProperty of a name present neither on the receiver nor on any
\* object of its parent chain returns undefined and no error, for every
\* acting principal.
C8_AbsentIsUndefined ==
    (LastGet /\ Holder(heap, last.this, last.name) = Null) =>
        (last.result = Undefined /\ last.err = NoError /\ last.outcome = "returned")

\* C8 witness: such a read on an object that has a parent.
C8_Witness ==
    /\ LastGet /\ Holder(heap, last.this, last.name) = Null
    /\ Parent(heap, last.this) # Null

\* C9: when the receiver and one or more ancestors each have a descriptor for
\* the name, GetProperty returns the value and applies the permissions of the
\* receiver's own (nearest) descriptor.
C9_NearestWins ==
    (LastGet /\ last.pd.ok
       /\ Holder(heap, Parent(heap, last.this), last.name) # Null) =>
        IF CanRead(last.pd, last.caller)
        THEN last.result = last.pd.v /\ last.err = NoError
        ELSE last.err = PermissionDenied

\* C10: for a descriptor with readableByAll = true, GetProperty succeeds and
\* returns the stored value for every acting principal, the owner or not.
C10_PublicReadForAll ==
    (LastGet /\ last.pd.ok /\ last.pd.r) =>
        (last.result = last.pd.v /\ last.err = NoError /\ last.outcome = "returned")

\* C10 witness: a world-readable descriptor read by a principal that does not
\* own it.
C10_Witness ==
    LastGet /\ last.pd.ok /\ last.pd.r /\ last.caller # last.pd.owner

\* The nearest ancestor of the receiver of the last call that holds its name,
\* or Null.  A call never touches an ancestor's table, so this is the same
\* before and after the call.
LastAncestor == Holder(heap, Parent(heap, last.this), last.name)

\* C11: a SetProperty for a name the receiver lacks but an ancestor has is
\* permitted only if the acting principal may write the nearest ancestor's
\* descriptor; otherwise it fails with PermissionDenied and creates no local
\* descriptor.
C11_ShadowNeedsAncestorWrite ==
    (last.op = "set" /\ ~last.pd.ok /\ LastAncestor # Null
       /\ ~CanWrite(heap[LastAncestor].properties.tab[last.name], last.caller)) =>
        (last.err = PermissionDenied /\ ~LastEntry.ok)

\* C12: a SetProperty that creates a local override of an inherited name
\* copies owner, readableByAll and enumerable from the nearest ancestor's
\* descriptor when that descriptor has inheritedPermissions = true, and seeds
\* owner = acting principal, readableByAll = true, enumerable = true,
\* inheritedPermissions = false otherwise.
C12_OverrideSeeding ==
    (LastSetOk /\ ~last.pd.ok /\ LastAncestor # Null) =>
        LET anc == heap[LastAncestor].properties.tab[last.name] IN
        /\ LastEntry.ok
        /\ IF anc.i
           THEN /\ LastEntry.owner = anc.owner
                /\ LastEntry.r = anc.r
                /\ LastEntry.e = anc.e
           ELSE /\ LastEntry.owner = last.caller
                /\ LastEntry.r /\ LastEntry.e /\ ~LastEntry.i

\* C15: no GetProperty or SetProperty call throws or unwinds, whatever the
\* object (an Object with a nil property table included): every call returns.
C15_NoCallUnwinds ==
    last.op \in {"get", "set"} => last.outcome = "returned"

\* Whether the parent chain of o reaches Null within k links.
RECURSIVE ReachesNull(_, _, _)
ReachesNull(h, o, k) ==
    IF o = Null THEN TRUE
    ELSE IF k = 0 THEN FALSE
    ELSE ReachesNull(h, h[o].parent, k - 1)

C17_ObjectProtoInitiallyEmpty ==
    /\ nops = 0 =>
          /\ heap["ObjectProto"].parent = Null
          /\ heap["ObjectProto"].properties.made
          /\ \A n \in Names : ~heap["ObjectProto"].properties.tab[n].ok
    /\ "ObjectProto" \notin written =>
          /\ \A n \in Names :
                GetProperty(heap, "ObjectProto", n) = [value |-> Undefined, err |-> NoError]
          /\ (LastGet /\ last.this = "ObjectProto") =>
                (last.result = Undefined /\ last.err = NoError)

\* C17 witness: ObjectProto is read after a property was created on another
\* object and before any SetProperty on ObjectProto itself.
C17_Witness ==
    /\ LastGet /\ last.this = "ObjectProto"
    /\ "ObjectProto" \notin written /\ written # {}

\* Thread t is inside the read-modify-write of a SetProperty on o: it holds
\* the descriptor read at line 91 and has not finished storing it back.
InSetProperty(t, o) == pc[t] \in {"set95", "set95w"} /\ frame[t].this = o

\* C13: a SetProperty on an object excludes every GetProperty and every other
\* SetProperty on the same object: no map read or assignment overlaps a map
\* assignment on the same table, and no two threads are inside the
\* read-modify-write of SetProperty on the same object at once.
C13_WritesAreExclusive ==
    /\ ~raced
    /\ \A o \in Objects : \A t \in Threads : \A u \in Threads \ {t} :
          ~(InSetProperty(t, o) /\ InSetProperty(u, o))

\* C14: concurrent GetProperty/SetProperty calls never get stuck: every call
\* that has started can go on to completion (the process has not been
\* stopped and the call has not unwound).
C14_CallsNeverStuck ==
    \A t \in Threads : pc[t] # "idle" => (~fatal /\ pc[t] # "panicked")

\* C18: once CCC.terminate has been called, no ping timer is pending and no
\* ping request is sent any more.
C18_TerminateStopsPinging ==
    terminated => (~nextPingPid /\ ~xhrObject.open)

\* The commands of queue q numbered above n, in order.
CommandsAbove(q, n) ==
    LET Keep(c) == c > n IN SelectSeq(q, Keep)

\* C19: with commands numbered 1, 2, ... in queueing order, CCC.parse removes
\* from commandOutput exactly the commands numbered <= ackCmd and keeps the
\* rest in order; nothing else removes a command, so a command stays queued
\* until an ack >= its number arrives (a stale ack removes nothing); and
\* every ping carries the whole queue.
C19_AckRemovesAcked ==
    /\ [][/\ lastAck'.has =>
                commandOutput' = CommandsAbove(commandOutput, lastAck'.n)
          /\ ~lastAck'.has =>
                SubSeq(commandOutput', 1, Len(commandOutput)) = commandOutput
          /\ (xhrObject'.open /\ xhrObject' # xhrObject) =>
                xhrObject'.cmds = commandOutput']_vars
    /\ [](xhrObject.open => xhrObject.cmds = commandOutput)

\* C19 witness: an ack was parsed that left exactly the commands after it.
C19_Witness ==
    /\ lastAck.has /\ lastAck.n >= 1 /\ lastAck.n < queued
    /\ commandOutput # <<>> /\ Head(commandOutput) = lastAck.n + 1

C22_OnePingInFlight ==
    /\ [](outstanding <= 1 /\ (xhrObject.open <=> outstanding = 1))
    /\ [][xhrObject.open => (outstanding' <= outstanding)]_vars

\* C22 witness: the timeout fired while a request was open and sent nothing.
C22_Witness ==
    xhrObject.open /\ outstanding = 1 /\ ~nextPingPid

C24_DistributedOnce ==
    /\ [][/\ messageIndex' >= messageIndex
          /\ \A i \in (Len(distributed) + 1)..Len(distributed') :
                distributed'[i] > messageIndex]_vars
    /\ [](\A i, j \in 1..Len(distributed) :
             i < j => distributed[i] < distributed[j])
    /\ [](messageIndex =
             IF distributed = <<>> THEN 0 ELSE distributed[Len(distributed)])

\* C24 witness: messages arrived in more than one batch.
C24_Witness ==
    Len(distributed) >= 2 /\ ~xhrObject.open /\ ~newMsgSincePing

\* C25: the ping interval stays between the minimum and the maximum; a ping
\* grows it by 10% up to the maximum, each new message cuts it by 20% down to
\* the minimum, and CCC.sendCommand restarts it from the minimum.
C25_IntervalInRange ==
    /\ [](MIN_PING_INTERVAL <= pingInterval /\ pingInterval <= MAX_PING_INTERVAL)
    /\ [][/\ (outstanding' > outstanding /\ queued' = queued) =>
                pingInterval' = Min(MAX_PING_INTERVAL, (pingInterval * 11) \div 10)
          /\ queued' > queued =>
                pingInterval' = (MIN_PING_INTERVAL * 11) \div 10
          /\ Len(distributed') = Len(distributed) + 1 =>
                pingInterval' = Max(MIN_PING_INTERVAL, (pingInterval * 4) \div 5)
          /\ (outstanding' < outstanding /\ distributed' = distributed) =>
                pingInterval' = pingInterval]_vars

\* C25 witness: the interval has reached the maximum.
C25_Witness ==
    pingInterval = MAX_PING_INTERVAL /\ xhrObject.open

\* C25 witness at the other end: a new message cut an interval that was
\* already within 20% of the minimum.
C25_WitnessFloor ==
    pingInterval = MIN_PING_INTERVAL /\ distributed # <<>> /\ queued > 0

\* C26 (as stated): CCC.setUnreadLines(n) leaves the title with its old
\* count stripped and " (n)" appended when n is non-zero and the clock is
\* more than ten seconds past CCC.lastActiveTime, and with no count
\* otherwise.
C26_CountShownWhenAway ==
    shown.called =>
        title = IF shown.n # 0 /\ shown.at > shown.active + IDLE_LIMIT
                THEN Append(StripCount(shown.before), Count(shown.n))
                ELSE StripCount(shown.before)

\* The history a CCC.sendCommand call with echo should leave: the old entries
\* followed by its lines, no line repeating the entry before it, cut down to
\* the newest MAX_HISTORY_SIZE.
RECURSIVE C27_Added(_, _)
C27_Added(hist, lines) ==
    IF lines = <<>> THEN hist
    ELSE C27_Added(IF hist # <<>> /\ hist[Len(hist)] = Head(lines)
                   THEN hist ELSE Append(hist, Head(lines)),
                   Tail(lines))
C27_Saved(hist, lines) ==
    LET all == C27_Added(hist, lines) IN
    SubSeq(all, Max(1, Len(all) - MAX_HISTORY_SIZE + 1), Len(all))

\* C27: the history never holds more than CCC.MAX_HISTORY_SIZE commands;
\* a CCC.sendCommand call with echo leaves the newest MAX_HISTORY_SIZE of
\* the old entries followed by its lines (a line equal to the entry before
\* it is not repeated), and a call without echo leaves the history as it is.
C27_HistoryBounded ==
    /\ [](Len(commandHistory) <= MAX_HISTORY_SIZE)
    /\ [][/\ (lastSend'.sent /\ ~lastSend'.echo) =>
                commandHistory' = commandHistory
          /\ (lastSend'.sent /\ lastSend'.echo) =>
                commandHistory' = C27_Saved(commandHistory, lastSend'.lines)
          /\ ~lastSend'.sent => commandHistory' = commandHistory]_vars

\* C27 witness: a command was saved in a full history, whose oldest entry
\* went.
C27_Witness ==
    /\ Len(commandHistory) = MAX_HISTORY_SIZE
    /\ Head(commandHistory) = <<"A">>
    /\ lastSend.sent /\ lastSend.echo

\* C28: the history pointer is -1 or the index of a history entry, and while
\* it is not -1 the textarea shows the entry it points at.
C28_PointerInHistory ==
    /\ -1 <= commandHistoryPointer
    /\ commandHistoryPointer < Len(commandHistory)
    /\ commandHistoryPointer # -1 =>
          textarea = commandHistory[commandHistoryPointer + 1]

\* C28 witness: the user went back past the newest entry.
C28_Witness ==
    /\ commandHistoryPointer >= 0
    /\ commandHistoryPointer < Len(commandHistory) - 1
    /\ commandTemp # NoText

====
